---- MODULE Spec2Model ----
(***************************************************************************)
(* Model of the synthesis request pipeline of text-to-speech-api:          *)
(* POST /tts (app/routers/tts.py), the two engine adapters                 *)
(* (app/services/tts_edge.py, app/services/tts_pyttsx3.py) and the         *)
(* artifact store / converter helpers (app/core/utils.py).                 *)
(*                                                                         *)
(* Scheduling.  tts_endpoint is a coroutine on one asyncio event loop: the *)
(* code between two suspension points is one atomic action.  The           *)
(* suspension points are the network reads of edge_tts's stream() and the  *)
(* run_in_executor await of Pyttsx3Engine.synthesize.  _synthesize_sync    *)
(* runs on an executor thread, so its steps interleave with everything.    *)
(* convert_audio is a plain blocking call made on the event loop: while it *)
(* runs (loopBusy # 0) no coroutine advances, only executor threads do.    *)
(*                                                                         *)
(* Files.  A file is a sequence of audio chunks plus the set of requests   *)
(* holding an open descriptor on it.  A write through a descriptor reaches *)
(* the file only while that file is still the one linked at the path       *)
(* (POSIX unlink semantics); edge's open(path, "ab") per chunk is by path. *)
(*                                                                         *)
(* The per-client admission counter (_rate_limit_ok) never rejects with    *)
(* fewer than MAX_REQ_PER_MIN requests in flight; it is outside Spec.      *)
(***************************************************************************)
EXTENDS Integers, Sequences, FiniteSets, TLC

\* ---------------------------------------------------------------- bounds
NReq == 2          \* number of POST /tts requests issued
NChunks == 2       \* audio chunks making up one complete synthesis output
NText == 1         \* number of distinct valid texts

Reqs == 1..NReq
Engines == {"edge", "pyttsx3"}
SUPPORTED_FORMATS == {"mp3", "ogg", "wav"}
BadText == 0                         \* empty / whitespace-only / too long text
Texts == 0..NText
CACHE_ENABLED == TRUE

Payload == [engine : Engines, text : Texts, format : SUPPORTED_FORMATS]
NoPayload == [engine |-> "none", text |-> 0, format |-> "none"]

\* ------------------------------------------------------- artifact store
\* key_hex stands for sha256 of the canonical JSON payload: an injective
\* function of the fingerprinted fields (voice, ssml, rate, pitch are held
\* fixed in this specification).
KeyHex(engine, text, fmt) == <<engine, text, fmt>>
Hexes == Engines \X Texts \X SUPPORTED_FORMATS
Paths == Hexes \X SUPPORTED_FORMATS

\* compute_cache_key(...).abs_path = AUDIO_DIR / hex[:2] / (hex + "." + fmt)
compute_cache_key(p) == <<KeyHex(p.engine, p.text, p.format), p.format>>

\* Path.with_suffix
with_suffix(path, ext) == <<path[1], ext>>

\* audio_url_for(rel_path) = "/static/audio/" + rel_path
audio_url_for(path) == <<"/static/audio", path>>

NoFile == [chunks |-> <<>>, fds |-> {}, exists |-> FALSE]
Hole == [w |-> 0, eng |-> "none", i |-> 0, enc |-> "none"]
Chunk(w, eng, i, enc) == [w |-> w, eng |-> eng, i |-> i, enc |-> enc]

Exists(f, path) == f[path].exists

\* Path.unlink(): the name goes away; descriptors held on the old file
\* keep writing to an orphan.
Unlink(f, path) == [f EXCEPT ![path] = NoFile]

\* positional write of one chunk into a chunk sequence
WriteAt(chunks, pos, c) ==
  LET n == IF Len(chunks) > pos THEN Len(chunks) ELSE pos
  IN [k \in 1..n |-> IF k = pos THEN c
                     ELSE IF k <= Len(chunks) THEN chunks[k] ELSE Hole]

\* open(path, "ab"); write(c); close(): creates the file when missing
AppendByPath(f, path, c) ==
  [f EXCEPT ![path] = [chunks |-> Append(f[path].chunks, c),
                       fds |-> f[path].fds, exists |-> TRUE]]

\* open(path, "wb"): create or truncate, r keeps the descriptor
OpenTrunc(f, path, r) ==
  [f EXCEPT ![path] = [chunks |-> <<>>, fds |-> f[path].fds \cup {r},
                       exists |-> TRUE]]

HoldsFd(f, path, r) == f[path].exists /\ r \in f[path].fds

\* write through r's descriptor at position pos
WriteFd(f, path, r, pos, c) ==
  IF HoldsFd(f, path, r)
  THEN [f EXCEPT ![path].chunks = WriteAt(@, pos, c)]
  ELSE f

CloseFd(f, path, r) ==
  IF HoldsFd(f, path, r) THEN [f EXCEPT ![path].fds = @ \ {r}] ELSE f

\* the complete output of one synthesis by request w on engine eng,
\* encoded as enc
FullOutput(w, eng, enc) == [k \in 1..NChunks |-> Chunk(w, eng, k, enc)]

Complete(file, ext) ==
  /\ file.exists
  /\ file.fds = {}
  /\ \E w \in Reqs, eng \in Engines : file.chunks = FullOutput(w, eng, ext)

\* ------------------------------------------------------------------ state
VARIABLES
  fs,           \* artifact tree: path -> file
  pc,           \* position of each request's handler / executor job
  payload,      \* the TTSRequest of each request
  engine_name,  \* tts_endpoint's local engine_name (reported in the response)
  inFallback,   \* the handler is inside the except (WSServerHandshakeError, ...) block
  nchunk,       \* audio chunks written so far by the running synthesize call
  convSrc,      \* the AudioSegment convert_audio decoded from src
  resp,         \* TTSResponse returned, or NoResp
  error,        \* detail of the error response, or ""
  loopBusy,     \* request whose blocking convert_audio holds the event loop, or 0
  p3_engine,    \* Pyttsx3Engine._engine is set
  p3_available, \* Pyttsx3Engine._available: "none", "true", "false"
  ffmpeg,       \* shutil.which("ffmpeg") is not None on this host
  synthCalls,   \* history: engine.synthesize invocations per request and engine
  primFail,     \* history: how the primary engine failed: "none", "transient", "other"
  before,       \* history: requests already finished when the request arrived
  initCalls     \* history: number of pyttsx3.init() calls

vars == <<fs, pc, payload, engine_name, inFallback, nchunk, convSrc, resp,
          error, loopBusy, p3_engine, p3_available, ffmpeg, synthCalls,
          primFail, before, initCalls>>

NoResp == [audio_url |-> <<>>, engine |-> "none", format |-> "none", cached |-> FALSE]
TTSResponse(url, eng, fmt, cached) ==
  [audio_url |-> url, engine |-> eng, format |-> fmt, cached |-> cached]

Terminal(r) == pc[r] \in {"done", "failed"}

Init ==
  /\ fs = [path \in Paths |-> NoFile]
  /\ pc = [r \in Reqs |-> "idle"]
  /\ payload = [r \in Reqs |-> NoPayload]
  /\ engine_name = [r \in Reqs |-> "none"]
  /\ inFallback = [r \in Reqs |-> FALSE]
  /\ nchunk = [r \in Reqs |-> 0]
  /\ convSrc = [r \in Reqs |-> <<>>]
  /\ resp = [r \in Reqs |-> NoResp]
  /\ error = [r \in Reqs |-> ""]
  /\ loopBusy = 0
  /\ p3_engine = FALSE
  /\ p3_available = "none"
  /\ ffmpeg \in BOOLEAN
  /\ synthCalls = [r \in Reqs |-> [e \in Engines |-> 0]]
  /\ primFail = [r \in Reqs |-> "none"]
  /\ before = [r \in Reqs |-> {}]
  /\ initCalls = 0

\* ------------------------------------------------------ handler fragments
\* tmp_out / tmp_wav: the canonical path when the engine's native format is
\* the requested one, else the same name with the native suffix
NativePath(p, native) ==
  IF p.format = native THEN compute_cache_key(p)
  ELSE with_suffix(compute_cache_key(p), native)

\* the file the engine now serving request r writes
OutPath(r) ==
  IF pc[r] = "edge_stream" THEN NativePath(payload[r], "mp3")
  ELSE NativePath(payload[r], "wav")

\* variant: the text is not validated
validate_text_lengthSkipped(text) == TRUE

\* validate_text_length
validate_text_length(text) == text # BadText

\* variant: the cache check is skipped
CacheHitNever(f, p) == FALSE

\* the cache check of tts_endpoint
CacheHit(f, p) == CACHE_ENABLED /\ Exists(f, compute_cache_key(p))

\* variant: a hit reports the engine that produced the stored artifact
HitEngineProducer(f, p) ==
  LET chunks == f[compute_cache_key(p)].chunks
  IN IF chunks # <<>> /\ chunks[1] # Hole THEN chunks[1].eng ELSE p.engine

\* engine reported on a cache hit: engine_name, still payload.engine there
HitEngine(f, p) == p.engine

\* variant: the miss path reports cached=True as the hit path does
MissCachedAlways == TRUE

\* cached flag of the response built on the miss path
MissCached == FALSE

\* raise HTTPException(detail) / an exception leaving the handler
Fail(r, detail) ==
  /\ pc' = [pc EXCEPT ![r] = "failed"]
  /\ error' = [error EXCEPT ![r] = detail]
  /\ UNCHANGED resp

\* return TTSResponse(...)
Return(r, final_path, eng, fmt, cached) ==
  /\ pc' = [pc EXCEPT ![r] = "done"]
  /\ resp' = [resp EXCEPT ![r] =
                TTSResponse(audio_url_for(final_path), eng, fmt, cached)]
  /\ UNCHANGED error

\* variant: engine_name is not overwritten in the fallback block
UsedEngineRequested(r) == engine_name[r]

\* engine reported after a synthesis: the fallback block overwrites engine_name
UsedEngine(r) == IF inFallback[r] THEN "pyttsx3" ELSE engine_name[r]

\* AudioSegment.from_file(src) succeeds on an existing, non-empty file
Decodable(f, src) == Exists(f, src) /\ f[src].chunks # <<>>

\* audio.export(dst, format=ext): every chunk re-encoded as ext
Reencode(chunks, ext) ==
  [k \in 1..Len(chunks) |-> IF chunks[k] = Hole THEN Hole
                            ELSE [chunks[k] EXCEPT !.enc = ext]]

RECURSIVE WriteAll(_, _, _, _, _)
WriteAll(f, path, r, chunks, k) ==
  IF k > Len(chunks) THEN f
  ELSE WriteAll(WriteFd(f, path, r, k, chunks[k]), path, r, chunks, k + 1)

\* variant: the converter is taken for granted
has_ffmpegAssumed == TRUE

\* has_ffmpeg(): shutil.which("ffmpeg") is not None
has_ffmpeg == ffmpeg

\* the code after `await engine.synthesize(...)` returned tmp: no conversion
\* needed -> respond; else has_ffmpeg(), then convert_audio starts: it
\* decodes src and opens dst for writing (truncating it)
AfterSynth(r, tmp, convFormats) ==
  LET p == payload[r]
      ck == compute_cache_key(p)
  IN IF p.format \notin convFormats
     THEN /\ Return(r, tmp, UsedEngine(r), p.format, MissCached)
          /\ UNCHANGED <<fs, convSrc, loopBusy>>
     ELSE IF ~has_ffmpeg
     THEN /\ Fail(r, "ffmpeg is required to convert to requested format.")
          /\ UNCHANGED <<fs, convSrc, loopBusy>>
     ELSE IF ~Decodable(fs, tmp)
     THEN /\ Fail(r, "Audio conversion failed.")
          /\ UNCHANGED <<fs, convSrc, loopBusy>>
     ELSE /\ convSrc' = [convSrc EXCEPT ![r] = fs[tmp].chunks]
          /\ fs' = OpenTrunc(fs, ck, r)
          /\ loopBusy' = r
          /\ pc' = [pc EXCEPT ![r] = "convert"]
          /\ UNCHANGED <<resp, error>>

\* ------------------------------------------- state of the other components
\* Admission control (_rate_limit_ok) has a specification of its own,
\* SpecRate; its variables stay at their initial values under Spec.
VARIABLES
  now,          \* time.monotonic(), in whole seconds
  RATE_BUCKET,  \* _RATE_BUCKET: client -> list of admission timestamps
  admitted,     \* history: every timestamp at which the client was admitted
  verdict       \* history: the last _rate_limit_ok call: client, result, time

rateVars == <<now, RATE_BUCKET, admitted, verdict>>

\* The cache fingerprint (clamp, normalize_text, compute_cache_key) has a
\* specification of its own, SpecFp, over two requests.
VARIABLES
  fpA,      \* the first request, as parsed into TTSRequest
  fpB,      \* the second request: the first with one field replaced
  ckA,      \* CacheKey computed for fpA
  ckB,      \* CacheKey computed for fpB
  fpStage,  \* "start", "first" (fpA served), "second" (fpB looked up)
  fpStore,  \* artifact paths present after fpA was served
  fpHit     \* whether fpB found its path in fpStore

fpVars == <<fpA, fpB, ckA, ckB, fpStage, fpStore, fpHit>>

\* The pyttsx3 driver's properties across syntheses have a specification
\* of their own, SpecLocal.
VARIABLES
  engRate,    \* driver property "rate", as an offset from the driver default
  engVoice,   \* driver property "voice"
  lastSynth,  \* history: the last _synthesize_sync call and what it spoke with
  nSynth      \* history: how many _synthesize_sync calls ran

localVars == <<engRate, engVoice, lastSynth, nSynth>>

\* GET /download/{file_id} has a specification of its own, SpecDl.
VARIABLES
  dlId,       \* the file_id path parameter, a string of characters
  dlPresent,  \* whether the artifact tree holds the file the handler asks for
  dlStage,    \* "start", "done"
  dlStatus,   \* HTTP status of the answer, 0 before it
  dlPath,     \* the relative path the handler built, <<>> when none
  dlProbed    \* history: paths the handler passed to the filesystem

dlVars == <<dlId, dlPresent, dlStage, dlStatus, dlPath, dlProbed>>

sideVars == <<rateVars, fpVars, localVars, dlVars>>

\* ------------------------------------------------------------ operations
hostVars == <<p3_engine, p3_available, ffmpeg, initCalls>>

\* POST /tts up to its first suspension point: validation, cache key, cache
\* check, and on a miss the start of engine.synthesize (for edge: the
\* unlink of a leftover out_path; for pyttsx3: the job handed to the executor)
Arrive(r, p) ==
  /\ loopBusy = 0
  /\ pc[r] = "idle"
  /\ IF r = 1 THEN TRUE ELSE pc[r - 1] # "idle"
  /\ payload' = [payload EXCEPT ![r] = p]
  /\ engine_name' = [engine_name EXCEPT ![r] = p.engine]
  /\ before' = [before EXCEPT ![r] = {q \in Reqs : Terminal(q)}]
  /\ IF ~validate_text_length(p.text)
     THEN /\ Fail(r, "Text must not be empty.")
          /\ UNCHANGED <<fs, synthCalls>>
     ELSE IF CacheHit(fs, p)
     THEN /\ Return(r, compute_cache_key(p), HitEngine(fs, p), p.format, TRUE)
          /\ UNCHANGED <<fs, synthCalls>>
     ELSE IF p.engine = "edge"
     THEN /\ fs' = Unlink(fs, NativePath(p, "mp3"))
          /\ pc' = [pc EXCEPT ![r] = "edge_stream"]
          /\ synthCalls' = [synthCalls EXCEPT ![r]["edge"] = @ + 1]
          /\ UNCHANGED <<resp, error>>
     ELSE /\ pc' = [pc EXCEPT ![r] = "th_queued"]
          /\ synthCalls' = [synthCalls EXCEPT ![r]["pyttsx3"] = @ + 1]
          /\ UNCHANGED <<fs, resp, error>>
  /\ UNCHANGED <<inFallback, nchunk, convSrc, loopBusy, primFail>>
  /\ UNCHANGED <<hostVars, sideVars>>

\* EdgeTTSEngine.synthesize: one audio chunk of the stream is appended
EdgeChunk(r) ==
  /\ loopBusy = 0
  /\ pc[r] = "edge_stream"
  /\ nchunk[r] < NChunks
  /\ fs' = AppendByPath(fs, OutPath(r), Chunk(r, "edge", nchunk[r] + 1, "mp3"))
  /\ nchunk' = [nchunk EXCEPT ![r] = @ + 1]
  /\ UNCHANGED <<pc, payload, engine_name, inFallback, convSrc, resp, error,
                 loopBusy, synthCalls, primFail, before>>
  /\ UNCHANGED <<hostVars, sideVars>>

\* variant: a broad `except Exception` starts the fallback
IsTransientAny(kind) == TRUE

\* except (WSServerHandshakeError, ClientConnectorError)
IsTransient(kind) == kind = "transient"

\* EdgeTTSEngine.synthesize re-raises what stream() raised; tts_endpoint
\* either starts the pyttsx3 fallback or answers "Synthesis failed."
EdgeFail(r, kind) ==
  /\ loopBusy = 0
  /\ pc[r] = "edge_stream"
  /\ primFail' = [primFail EXCEPT ![r] = kind]
  /\ IF IsTransient(kind)
     THEN /\ inFallback' = [inFallback EXCEPT ![r] = TRUE]
          /\ pc' = [pc EXCEPT ![r] = "th_queued"]
          /\ nchunk' = [nchunk EXCEPT ![r] = 0]
          /\ synthCalls' = [synthCalls EXCEPT ![r]["pyttsx3"] = @ + 1]
          /\ UNCHANGED <<resp, error>>
     ELSE /\ Fail(r, "Synthesis failed.")
          /\ UNCHANGED <<inFallback, nchunk, synthCalls>>
  /\ UNCHANGED <<fs, payload, engine_name, convSrc, loopBusy, before>>
  /\ UNCHANGED <<hostVars, sideVars>>

\* the stream ended: synthesize returns out_path and the handler goes on
EdgeEnd(r) ==
  /\ loopBusy = 0
  /\ pc[r] = "edge_stream"
  /\ nchunk[r] = NChunks
  /\ AfterSynth(r, OutPath(r), {"ogg", "wav"})
  /\ UNCHANGED <<payload, engine_name, inFallback, nchunk, synthCalls,
                 primFail, before>>
  /\ UNCHANGED <<hostVars, sideVars>>

\* _ensure_engine on an executor thread: the tests of _available and _engine
ThEnsure(r) ==
  /\ pc[r] = "th_queued"
  /\ pc' = [pc EXCEPT ![r] = IF p3_available = "false" THEN "th_raised"
                             ELSE IF ~p3_engine THEN "th_init"
                             ELSE "th_run"]
  /\ UNCHANGED <<fs, payload, engine_name, inFallback, nchunk, convSrc, resp,
                 error, loopBusy, synthCalls, primFail, before>>
  /\ UNCHANGED <<hostVars, sideVars>>

\* _ensure_engine: pyttsx3.init() returns or raises
ThInit(r, ok) ==
  /\ pc[r] = "th_init"
  /\ initCalls' = initCalls + 1
  /\ IF ok
     THEN /\ p3_engine' = TRUE
          /\ p3_available' = "true"
          /\ pc' = [pc EXCEPT ![r] = "th_run"]
     ELSE /\ p3_available' = "false"
          /\ pc' = [pc EXCEPT ![r] = "th_raised"]
          /\ UNCHANGED p3_engine
  /\ UNCHANGED <<fs, payload, engine_name, inFallback, nchunk, convSrc, resp,
                 error, loopBusy, ffmpeg, synthCalls, primFail, before>>
  /\ UNCHANGED sideVars

\* _synthesize_sync: save_to_file / runAndWait opens wav_path for writing
ThOpen(r) ==
  /\ pc[r] = "th_run"
  /\ fs' = OpenTrunc(fs, OutPath(r), r)
  /\ pc' = [pc EXCEPT ![r] = "th_write"]
  /\ nchunk' = [nchunk EXCEPT ![r] = 0]
  /\ UNCHANGED <<payload, engine_name, inFallback, convSrc, resp, error,
                 loopBusy, synthCalls, primFail, before>>
  /\ UNCHANGED <<hostVars, sideVars>>

\* runAndWait writes the next part of the audio; after the last one the
\* file is closed and _synthesize_sync returns
ThChunk(r) ==
  /\ pc[r] = "th_write"
  /\ nchunk[r] < NChunks
  /\ LET f1 == WriteFd(fs, OutPath(r), r, nchunk[r] + 1,
                       Chunk(r, "pyttsx3", nchunk[r] + 1, "wav"))
     IN IF nchunk[r] + 1 = NChunks
        THEN /\ fs' = CloseFd(f1, OutPath(r), r)
             /\ pc' = [pc EXCEPT ![r] = "th_done"]
        ELSE /\ fs' = f1
             /\ UNCHANGED pc
  /\ nchunk' = [nchunk EXCEPT ![r] = @ + 1]
  /\ UNCHANGED <<payload, engine_name, inFallback, convSrc, resp, error,
                 loopBusy, synthCalls, primFail, before>>
  /\ UNCHANGED <<hostVars, sideVars>>

\* the engine raises while synthesizing (driver error, busy run loop, ...)
ThFail(r) ==
  /\ pc[r] \in {"th_run", "th_write"}
  /\ fs' = CloseFd(fs, OutPath(r), r)
  /\ pc' = [pc EXCEPT ![r] = "th_raised"]
  /\ UNCHANGED <<payload, engine_name, inFallback, nchunk, convSrc, resp,
                 error, loopBusy, synthCalls, primFail, before>>
  /\ UNCHANGED <<hostVars, sideVars>>

\* variant: a failed fallback is retried
FallbackRaisedRetry(r) ==
  /\ pc' = [pc EXCEPT ![r] = "th_queued"]
  /\ synthCalls' = [synthCalls EXCEPT ![r]["pyttsx3"] = @ + 1]
  /\ UNCHANGED <<resp, error>>

\* engine_fallback.synthesize raised inside the except block: the exception
\* leaves tts_endpoint unhandled and the server answers 500
\* "Internal Server Error"; no engine is invoked again
FallbackRaised(r) ==
  /\ Fail(r, "Internal Server Error")
  /\ UNCHANGED synthCalls

\* the executor future resolves and the handler resumes: after a result it
\* goes on to the conversion; an exception of the primary engine is caught
\* by `except Exception`, one raised inside the fallback block is caught by
\* no clause of the same try statement and leaves the handler
SynthReturn(r) ==
  /\ loopBusy = 0
  /\ pc[r] \in {"th_done", "th_raised"}
  /\ IF pc[r] = "th_done"
     THEN /\ AfterSynth(r, OutPath(r), {"mp3", "ogg"})
          /\ UNCHANGED <<primFail, synthCalls>>
     ELSE IF inFallback[r]
     THEN /\ FallbackRaised(r)
          /\ UNCHANGED <<fs, convSrc, loopBusy, primFail>>
     ELSE /\ Fail(r, "Synthesis failed.")
          /\ primFail' = [primFail EXCEPT ![r] = "other"]
          /\ UNCHANGED <<fs, convSrc, loopBusy, synthCalls>>
  /\ UNCHANGED <<payload, engine_name, inFallback, nchunk, before>>
  /\ UNCHANGED <<hostVars, sideVars>>

\* variant: the intermediate file is kept
CleanupKeep(f, tmp) == f

\* `if ck.abs_path != tmp and tmp.exists(): tmp.unlink()`: the intermediate
\* native-format file is removed after a successful conversion
Cleanup(f, tmp) == Unlink(f, tmp)

\* convert_audio finishes: export wrote dst and returned True, then the
\* intermediate file is unlinked and the response built; or export raised,
\* convert_audio returned False and the handler raises HTTPException
ConvFinish(r, ok) ==
  /\ loopBusy = r
  /\ pc[r] = "convert"
  /\ LET p == payload[r]
         ck == compute_cache_key(p)
         tmp == NativePath(p, IF p.engine = "edge" /\ ~inFallback[r]
                              THEN "mp3" ELSE "wav")
     IN IF ok
        THEN /\ fs' = Cleanup(CloseFd(WriteAll(fs, ck, r,
                                 Reencode(convSrc[r], p.format), 1), ck, r), tmp)
             /\ Return(r, ck, UsedEngine(r), p.format, MissCached)
        ELSE /\ fs' = CloseFd(fs, ck, r)
             /\ Fail(r, "Audio conversion failed.")
  /\ loopBusy' = 0
  /\ convSrc' = [convSrc EXCEPT ![r] = <<>>]
  /\ UNCHANGED <<payload, engine_name, inFallback, nchunk, synthCalls,
                 primFail, before>>
  /\ UNCHANGED <<hostVars, sideVars>>

FailKinds == {"transient", "other"}

Next ==
  \/ \E r \in Reqs, p \in Payload : Arrive(r, p)
  \/ \E r \in Reqs : EdgeChunk(r)
  \/ \E r \in Reqs, kind \in FailKinds : EdgeFail(r, kind)
  \/ \E r \in Reqs : EdgeEnd(r)
  \/ \E r \in Reqs : ThEnsure(r)
  \/ \E r \in Reqs, ok \in BOOLEAN : ThInit(r, ok)
  \/ \E r \in Reqs : ThOpen(r)
  \/ \E r \in Reqs : ThChunk(r)
  \/ \E r \in Reqs : ThFail(r)
  \/ \E r \in Reqs : SynthReturn(r)
  \/ \E r \in Reqs, ok \in BOOLEAN : ConvFinish(r, ok)

\* ---------------------------------------------------- admission control
MAX_REQ_PER_MIN == 30
WINDOW_SEC == 60
NClient == 1       \* number of client addresses
MaxTime == 121     \* the clock stops here

Clients == 1..NClient
\* one more client address, which makes a few calls only
Bystander == NClient + 1
MaxBystander == 2  \* admissions of the bystander
Ips == Clients \cup {Bystander}
\* the clock advances by a whole window or by just more than one
TickSteps == {WINDOW_SEC, WINDOW_SEC + 1}
NoVerdict == [client |-> 0, ok |-> TRUE, at |-> 0]

InitRate ==
  /\ now = 0
  /\ RATE_BUCKET = [c \in Ips |-> <<>>]
  /\ admitted = [c \in Ips |-> <<>>]
  /\ verdict = NoVerdict

\* variant: a timestamp exactly WINDOW_SEC old is evicted too
ExpiredAtWindow(t, stamp) == t - stamp >= WINDOW_SEC

\* now - bucket[0] > WINDOW_SEC
Expired(t, stamp) == t - stamp > WINDOW_SEC

\* while bucket and (now - bucket[0] > WINDOW_SEC): bucket.pop(0)
RECURSIVE Evict(_, _)
Evict(bucket, t) ==
  IF bucket # <<>> /\ Expired(t, Head(bucket)) THEN Evict(Tail(bucket), t)
  ELSE bucket

\* variant: the timestamp of a rejected call is recorded too
rate_limit_okRecordsRejected(c) ==
  LET bucket == Evict(RATE_BUCKET[c], now)
  IN /\ RATE_BUCKET' = [RATE_BUCKET EXCEPT ![c] = Append(bucket, now)]
     /\ IF Len(bucket) >= MAX_REQ_PER_MIN
        THEN /\ verdict' = [client |-> c, ok |-> FALSE, at |-> now]
             /\ UNCHANGED admitted
        ELSE /\ verdict' = [client |-> c, ok |-> TRUE, at |-> now]
             /\ admitted' = [admitted EXCEPT ![c] = Append(@, now)]
     /\ UNCHANGED now

\* _rate_limit_ok(ip)
rate_limit_ok(c) ==
  LET bucket == Evict(RATE_BUCKET[c], now)
  IN /\ IF Len(bucket) >= MAX_REQ_PER_MIN
        THEN /\ RATE_BUCKET' = [RATE_BUCKET EXCEPT ![c] = bucket]
             /\ verdict' = [client |-> c, ok |-> FALSE, at |-> now]
             /\ UNCHANGED admitted
        ELSE /\ RATE_BUCKET' = [RATE_BUCKET EXCEPT ![c] = Append(bucket, now)]
             /\ verdict' = [client |-> c, ok |-> TRUE, at |-> now]
             /\ admitted' = [admitted EXCEPT ![c] = Append(@, now)]
     /\ UNCHANGED now

\* the monotonic clock advances between two calls
Tick(d) ==
  /\ now + d <= MaxTime
  /\ now' = now + d
  /\ UNCHANGED <<RATE_BUCKET, admitted, verdict>>

NextRate ==
  \/ \E c \in Clients : rate_limit_ok(c) /\ UNCHANGED <<vars, fpVars, localVars, dlVars>>
  \/ \E d \in TickSteps : Tick(d) /\ UNCHANGED <<vars, fpVars, localVars, dlVars>>

\* admission control with a second client address
NextRateTwo ==
  \/ \E c \in Clients :
       rate_limit_ok(c) /\ UNCHANGED <<vars, fpVars, localVars, dlVars>>
  \/ /\ Len(admitted[Bystander]) < MaxBystander
     /\ rate_limit_ok(Bystander)
     /\ UNCHANGED <<vars, fpVars, localVars, dlVars>>
  \/ \E d \in TickSteps : Tick(d) /\ UNCHANGED <<vars, fpVars, localVars, dlVars>>

\* ------------------------------------------------------- cache fingerprint
RATE_MIN == -50
RATE_MAX == 50
PITCH_MIN == -12
PITCH_MAX == 12
MaxLen == 2        \* characters in a request text

\* characters: a letter, a space, a line feed, U+200C
SP == " "
LF == "LF"
ZWNJ == "ZWNJ"
Chars == {"a", SP, LF, ZWNJ}
Whitespace == {SP, LF}

\* str.strip()
RECURSIVE LStrip(_)
LStrip(s) == IF s # <<>> /\ Head(s) \in Whitespace THEN LStrip(Tail(s)) ELSE s
RECURSIVE RStrip(_)
RStrip(s) ==
  IF s # <<>> /\ s[Len(s)] \in Whitespace THEN RStrip(SubSeq(s, 1, Len(s) - 1))
  ELSE s
Strip(s) == RStrip(LStrip(s))

\* text.replace(U+200C, "")
RemoveZwnj(s) == SelectSeq(s, LAMBDA c : c # ZWNJ)

\* _WHITESPACE_RE.sub(" ", text): every maximal run of whitespace becomes
\* one space
RECURSIVE CollapseWs(_)
CollapseWs(s) ==
  IF s = <<>> THEN <<>>
  ELSE IF Head(s) \in Whitespace
       THEN <<SP>> \o CollapseWs(LStrip(s))
       ELSE <<Head(s)>> \o CollapseWs(Tail(s))

normalize_text(text) == Strip(CollapseWs(RemoveZwnj(text)))

\* variant: the value is passed through
clampNone(value, lo, hi) == value

\* max(lo, min(hi, value))
clamp(value, lo, hi) ==
  LET m == IF hi < value THEN hi ELSE value
  IN IF lo > m THEN lo ELSE m

\* Optional[str]: None or a string
NoneVoice == [some |-> FALSE, id |-> ""]
SomeVoice(id) == [some |-> TRUE, id |-> id]
Voices == {NoneVoice, SomeVoice(""), SomeVoice("fa-IR-DilaraNeural")}
\* payload.voice or ""
VoiceOrEmpty(v) == IF v.some THEN v.id ELSE ""

RawTexts == UNION {[1..n -> Chars] : n \in 1..MaxLen}
\* texts that pass validate_text_length
ValidTexts == {t \in RawTexts : Strip(t) # <<>>}
Rates == {RATE_MIN - 1, 0, RATE_MAX, RATE_MAX + 100}
Pitches == {PITCH_MIN - 1, PITCH_MIN, 0}

\* the values each TTSRequest field is drawn from
FieldValues ==
  [engine |-> Engines, voice |-> Voices, text |-> ValidTexts,
   rate |-> Rates, pitch |-> Pitches, format |-> SUPPORTED_FORMATS,
   ssml |-> BOOLEAN, normalize |-> BOOLEAN]
Fields == DOMAIN FieldValues
Requests ==
  [engine : Engines, voice : Voices, text : ValidTexts, rate : Rates,
   pitch : Pitches, format : SUPPORTED_FORMATS, ssml : BOOLEAN,
   normalize : BOOLEAN]

\* text_for_hash
text_for_hash(q) ==
  IF q.ssml THEN q.text
  ELSE IF q.normalize THEN normalize_text(q.text) ELSE q.text

\* json.dumps of a str: quoted, the line feed escaped, U+200C kept
\* (ensure_ascii=False)
JsonEscape(s) == [k \in 1..Len(s) |-> IF s[k] = LF THEN "\\n" ELSE s[k]]
JsonString(s) == <<"\"">> \o JsonEscape(s) \o <<"\"">>

\* json.dumps of an int: decimal digits with a sign
RECURSIVE Digits(_)
Digits(n) ==
  LET d == <<"0", "1", "2", "3", "4", "5", "6", "7", "8", "9">>
  IN IF n < 10 THEN <<d[n + 1]>> ELSE Digits(n \div 10) \o <<d[(n % 10) + 1]>>
JsonInt(n) == IF n < 0 THEN <<"-">> \o Digits(0 - n) ELSE Digits(n)

JsonBool(b) == IF b THEN <<"true">> ELSE <<"false">>

JsonMember(key, value) == <<"\"", key, "\"", ": ">> \o value

\* variant: the payload leaves the ssml flag out
json_dumpsNoSsml(obj) ==
  <<"{">> \o JsonMember("engine", JsonString(<<obj.engine>>))
  \o <<", ">> \o JsonMember("format", JsonString(<<obj.format>>))
  \o <<", ">> \o JsonMember("pitch", JsonInt(obj.pitch))
  \o <<", ">> \o JsonMember("rate", JsonInt(obj.rate))
  \o <<", ">> \o JsonMember("text", JsonString(obj.text))
  \o <<", ">> \o JsonMember("voice", JsonString(<<obj.voice>>))
  \o <<"}">>

\* json.dumps(payload, sort_keys=True, ensure_ascii=False)
json_dumps(obj) ==
  <<"{">> \o JsonMember("engine", JsonString(<<obj.engine>>))
  \o <<", ">> \o JsonMember("format", JsonString(<<obj.format>>))
  \o <<", ">> \o JsonMember("pitch", JsonInt(obj.pitch))
  \o <<", ">> \o JsonMember("rate", JsonInt(obj.rate))
  \o <<", ">> \o JsonMember("ssml", JsonBool(obj.ssml))
  \o <<", ">> \o JsonMember("text", JsonString(obj.text))
  \o <<", ">> \o JsonMember("voice", JsonString(<<obj.voice>>))
  \o <<"}">>

\* hashlib.sha256(raw).hexdigest(): one digest per byte string
sha256(raw) == <<"sha256", raw>>

\* compute_cache_key(engine=, voice=, text=, ssml=, rate=, pitch=, fmt=)
CacheKey(engine, voice, text, ssml, rate, pitch, fmt) ==
  LET raw == json_dumps([engine |-> engine, voice |-> voice, text |-> text,
                         ssml |-> ssml, rate |-> rate, pitch |-> pitch,
                         format |-> fmt])
      key_hex == sha256(raw)
  IN [key_hex |-> key_hex, raw |-> raw, rel_path |-> <<key_hex, fmt>>]

\* tts_endpoint up to the cache key: clamp, resolve the text, fingerprint
Fingerprint(q) ==
  CacheKey(q.engine, VoiceOrEmpty(q.voice), text_for_hash(q), q.ssml,
           clamp(q.rate, RATE_MIN, RATE_MAX),
           clamp(q.pitch, PITCH_MIN, PITCH_MAX), q.format)

NoRequest == [f \in Fields |-> "none"]
NoKey == [key_hex |-> <<>>, raw |-> <<>>, rel_path |-> <<>>]

InitFpOff ==
  /\ fpA = NoRequest /\ fpB = NoRequest
  /\ ckA = NoKey /\ ckB = NoKey
  /\ fpStage = "off" /\ fpStore = {} /\ fpHit = FALSE

InitFp ==
  /\ fpA \in Requests /\ fpB = NoRequest
  /\ ckA = NoKey /\ ckB = NoKey
  /\ fpStage = "start" /\ fpStore = {} /\ fpHit = FALSE

\* the first request is served: its artifact is published at its path
FpFirst ==
  /\ fpStage = "start"
  /\ ckA' = Fingerprint(fpA)
  /\ fpStore' = {ckA'.rel_path}
  /\ fpStage' = "first"
  /\ UNCHANGED <<fpA, fpB, ckB, fpHit>>

\* the second request is the first with field f set to v; it is
\* fingerprinted and looked up
FpSecond(f, v) ==
  /\ fpStage = "first"
  /\ fpB' = [fpA EXCEPT ![f] = v]
  /\ ckB' = Fingerprint(fpB')
  /\ fpHit' = (CACHE_ENABLED /\ ckB'.rel_path \in fpStore)
  /\ fpStage' = "second"
  /\ UNCHANGED <<fpA, ckA, fpStore>>

NextFp ==
  \/ FpFirst /\ UNCHANGED <<vars, rateVars, localVars, dlVars>>
  \/ \E f \in Fields : \E v \in FieldValues[f] :
       FpSecond(f, v) /\ UNCHANGED <<vars, rateVars, localVars, dlVars>>

\* ------------------------------------------------- pyttsx3 driver properties
MaxSynth == 3      \* _synthesize_sync calls in one process

DefaultVoice == "driver-default"
LocalVoices == {"", "voice-1", "voice-2"}
LocalRates == {RATE_MIN, 0, RATE_MAX}
NoSynth == [voice |-> "", rate |-> 0, usedVoice |-> DefaultVoice, usedRate |-> 0]

\* pyttsx3.init(): the driver starts at its default rate and voice
InitLocal ==
  /\ engRate = 0
  /\ engVoice = DefaultVoice
  /\ lastSynth = NoSynth
  /\ nSynth = 0

\* _synthesize_sync(text, voice, rate_delta, wav_path) on the shared engine
synthesize_sync(voice, rate_delta) ==
  /\ nSynth < MaxSynth
  /\ engVoice' = IF voice # "" THEN voice ELSE engVoice
  /\ engRate' = engRate + rate_delta
  /\ lastSynth' = [voice |-> voice, rate |-> rate_delta,
                   usedVoice |-> engVoice', usedRate |-> engRate']
  /\ nSynth' = nSynth + 1

NextLocal ==
  \E voice \in LocalVoices, rate_delta \in LocalRates :
    synthesize_sync(voice, rate_delta) /\ UNCHANGED <<vars, rateVars, fpVars, dlVars>>

\* ---------------------------------------------------------------- download
HEX_LEN == 64

HexDigits == {"0", "1", "2", "3", "4", "5", "6", "7", "8", "9",
              "a", "b", "c", "d", "e", "f", "A", "B", "C", "D", "E", "F"}
DownloadExts == {<<"m", "p", "3">>, <<"o", "g", "g">>, <<"w", "a", "v">>}

\* str.lower(), on the letters that occur
LowerChar(c) ==
  CASE c = "A" -> "a" [] c = "B" -> "b" [] c = "C" -> "c" [] c = "D" -> "d"
    [] c = "E" -> "e" [] c = "F" -> "f" [] c = "M" -> "m" [] c = "P" -> "p"
    [] OTHER -> c
Lower(s) == [k \in 1..Len(s) |-> LowerChar(s[k])]

\* compute_cache_key: subdir = key_hex[:2], filename = f"{key_hex}.{fmt}",
\* rel_path = Path(subdir) / filename
RelPath(key_hex, fmt) == <<SubSeq(key_hex, 1, 2), key_hex \o <<".">> \o fmt>>

\* _FILE_ID_RE.match(file_id): ^ hex{64} \. (mp3|ogg|wav) $, where $ matches
\* at the end of the string and also just before a line feed that ends it
FileIdMatch(id) ==
  /\ \/ Len(id) = HEX_LEN + 4
     \/ Len(id) = HEX_LEN + 5 /\ id[HEX_LEN + 5] = LF
  /\ \A k \in 1..HEX_LEN : id[k] \in HexDigits
  /\ id[HEX_LEN + 1] = "."
  /\ SubSeq(id, HEX_LEN + 2, HEX_LEN + 4) \in DownloadExts
\* m.group("hex"), m.group("ext")
GroupHex(id) == SubSeq(id, 1, HEX_LEN)
GroupExt(id) == SubSeq(id, HEX_LEN + 2, HEX_LEN + 4)

\* identifiers tried: a run of one character after a first character, of
\* one less, exactly or one more than HEX_LEN characters, then a separator,
\* an extension and a tail, after a prefix
IdBodies ==
  {[k \in 1..n |-> IF k = 1 THEN h ELSE c] :
     n \in {HEX_LEN - 1, HEX_LEN, HEX_LEN + 1}, h \in {"0", "B", "z"},
     c \in {"a", "F", "g"}}
IdSeparators == {<<".">>, <<>>, <<"/">>}
IdExts == DownloadExts \cup {<<"M", "P", "3">>, <<"m", "p", "4">>, <<>>}
IdTails == {<<>>, <<LF>>, <<LF, LF>>, <<"x">>}
IdPrefixes == {<<>>, <<LF>>}
FileIds ==
  {pre \o body \o sep \o ext \o tail :
     pre \in IdPrefixes, body \in IdBodies, sep \in IdSeparators,
     ext \in IdExts, tail \in IdTails}

InitDlOff ==
  /\ dlId = <<>> /\ dlPresent = FALSE /\ dlStage = "off"
  /\ dlStatus = 0 /\ dlPath = <<>> /\ dlProbed = {}

InitDl ==
  /\ dlId \in FileIds /\ dlPresent \in BOOLEAN /\ dlStage = "start"
  /\ dlStatus = 0 /\ dlPath = <<>> /\ dlProbed = {}

\* download(file_id)
download ==
  /\ dlStage = "start"
  /\ dlStage' = "done"
  /\ IF ~FileIdMatch(dlId)
     THEN /\ dlStatus' = 400
          /\ UNCHANGED <<dlPath, dlProbed>>
     ELSE LET hex_id == Lower(GroupHex(dlId))
              ext == Lower(GroupExt(dlId))
              rel == <<SubSeq(hex_id, 1, 2), hex_id \o <<".">> \o ext>>
          IN /\ dlPath' = rel
             /\ dlProbed' = {rel}
             /\ dlStatus' = IF dlPresent THEN 200 ELSE 404
  /\ UNCHANGED <<dlId, dlPresent>>

NextDl == download /\ UNCHANGED <<vars, rateVars, fpVars, localVars>>

\* ---------------------------------------------------------- specifications
\* the pipeline, the other components at rest
InitPipeline == Init /\ InitRate /\ InitFpOff /\ InitLocal /\ InitDlOff

Spec == InitPipeline /\ [][Next]_<<vars, sideVars>>

\* the pipeline at rest, for the specifications of the other components
InitAtRest == Init /\ ffmpeg = TRUE

InitSpecRate == InitAtRest /\ InitRate /\ InitFpOff /\ InitLocal /\ InitDlOff

SpecRate == InitSpecRate /\ [][NextRate]_<<vars, sideVars>>

SpecRateTwo == InitSpecRate /\ [][NextRateTwo]_<<vars, sideVars>>

InitSpecFp == InitAtRest /\ InitRate /\ InitFp /\ InitLocal /\ InitDlOff

SpecFp == InitSpecFp /\ [][NextFp]_<<vars, sideVars>>

InitSpecLocal == InitAtRest /\ InitRate /\ InitFpOff /\ InitLocal /\ InitDlOff

SpecLocal == InitSpecLocal /\ [][NextLocal]_<<vars, sideVars>>

InitSpecDl == InitAtRest /\ InitRate /\ InitFpOff /\ InitLocal /\ InitDl

SpecDl == InitSpecDl /\ [][NextDl]_<<vars, sideVars>>

TypeOK ==
  /\ pc \in [Reqs -> {"idle", "edge_stream", "th_queued", "th_init", "th_run",
                      "th_write", "th_done", "th_raised", "convert", "done",
                      "failed"}]
  /\ loopBusy \in 0..NReq
  /\ \A r \in Reqs : nchunk[r] \in 0..NChunks

\* ------------------------------------------------------------ properties
Canon(r) == compute_cache_key(payload[r])
Valid(r) == pc[r] # "idle" /\ validate_text_length(payload[r].text)
Calls(r) == synthCalls[r]["edge"] + synthCalls[r]["pyttsx3"]
Succeeded(r) == pc[r] = "done" /\ ~resp[r].cached
SameRequest(q, r) == q # r /\ Valid(q) /\ Valid(r) /\ payload[q] = payload[r]
\* canonical artifact paths: the suffix is the format that was fingerprinted
Canonical(path) == path[2] = path[1][3]
\* native format of the engine that produced r's audio
UsedNative(r) ==
  IF payload[r].engine = "edge" /\ ~inFallback[r] THEN "mp3" ELSE "wav"
EngineFailure == {"Synthesis failed.", "Internal Server Error"}
\* requests arrive in index order (see Arrive): the requests for r's
\* fingerprint that arrived before r
Earlier(r) == {q \in Reqs : q < r /\ SameRequest(q, r)}

\* q is the first request for its fingerprint and ended in Done; r is the
\* same request, issued after q ended, and has ended too
InSequence(q, r) ==
  /\ SameRequest(q, r) /\ Earlier(q) = {}
  /\ q \in before[r] /\ pc[q] = "done" /\ Terminal(r)

\* C1: in every reachable state the file at a canonical artifact path
\* either does not exist or holds a complete artifact, so that no cache
\* check and no download sees a file that is still being written.
C1_CanonicalAbsentOrComplete ==
  \A path \in Paths :
    Canonical(path) => (~Exists(fs, path) \/ Complete(fs[path], path[2]))

\* C2: once the file at a canonical artifact path is fully written, no
\* step of any request deletes, truncates, appends to or overwrites it.
C2_NeverMutatedOnceWritten ==
  [][\A path \in Paths :
       (Canonical(path) /\ Complete(fs[path], path[2])) => fs'[path] = fs[path]]_vars

\* C3 (as stated): the same valid request issued twice in sequence, the
\* first succeeding, makes exactly one engine synthesize invocation in
\* total; the second reports cached=true and the first's audio_url.
C3_ExactlyOneInvocation ==
  \A q, r \in Reqs :
    InSequence(q, r)
      => /\ Calls(q) + Calls(r) = 1
         /\ pc[r] = "done" /\ resp[r].cached
         /\ resp[r].audio_url = resp[q].audio_url
         /\ ~resp[q].cached

\* C3 (amended): the same valid request issued twice in sequence, the
\* first succeeding: the second invokes no engine, reports cached=true and
\* returns the first's audio_url; the first reported cached=false and
\* invoked one engine, or two (edge, then pyttsx3) when it fell back; and
\* when no third request shares the fingerprint the canonical file is the
\* one complete output written by the first request.
C3_SecondIsCacheHit ==
  \A q, r \in Reqs :
    InSequence(q, r)
      => /\ Calls(r) = 0
         /\ pc[r] = "done" /\ resp[r].cached
         /\ resp[r].audio_url = resp[q].audio_url
         /\ resp[r].audio_url = audio_url_for(Canon(r))
         /\ ~resp[q].cached
         /\ Calls(q) = IF inFallback[q] THEN 2 ELSE 1
         /\ (\A o \in Reqs \ {q, r} : ~SameRequest(o, q))
              => fs[Canon(q)] =
                   [chunks |-> FullOutput(q, IF inFallback[q] THEN "pyttsx3"
                                             ELSE payload[q].engine,
                                          payload[q].format),
                    fds |-> {}, exists |-> TRUE]

C3_Witness ==
  \E q, r \in Reqs :
    /\ InSequence(q, r) /\ inFallback[q] /\ ~resp[q].cached
    /\ pc[r] = "done" /\ resp[r].cached

\* C4: a request whose canonical artifact path exists at the cache check
\* goes to Done in that very step with cached=true: it invokes no engine,
\* starts no conversion and leaves every file as it was; and a request
\* answered from the cache never does anything afterwards.
C4_CacheHitIsPure ==
  [][\A r \in Reqs :
       /\ (/\ pc[r] = "idle" /\ pc'[r] # "idle"
           /\ validate_text_length(payload'[r].text)
           /\ Exists(fs, compute_cache_key(payload'[r])))
            => /\ pc'[r] = "done" /\ resp'[r].cached
               /\ fs' = fs
               /\ synthCalls'[r] = [e \in Engines |-> 0]
               /\ loopBusy' = 0 /\ convSrc' = convSrc
       /\ (pc[r] = "done" /\ resp[r].cached)
            => /\ pc'[r] = "done" /\ resp'[r] = resp[r]
               /\ synthCalls'[r] = [e \in Engines |-> 0]]_vars

C4_Witness ==
  \E r \in Reqs : pc[r] = "done" /\ resp[r].cached /\ payload[r].format = "ogg"

\* C5: after a transient edge failure and a successful fallback the
\* response names pyttsx3, and the artifact exists at the canonical path of
\* the fingerprint computed from the requested engine edge and format.
C5_FallbackReportsUsedEngine ==
  \A r \in Reqs :
    (pc[r] = "done" /\ inFallback[r])
      => /\ primFail[r] = "transient"
         /\ resp[r].engine = "pyttsx3"
         /\ payload[r].engine = "edge"
         /\ Canon(r) = <<KeyHex("edge", payload[r].text, payload[r].format),
                         payload[r].format>>
         /\ resp[r].audio_url = audio_url_for(Canon(r))
         /\ Exists(fs, Canon(r))

C5_Witness ==
  \E r \in Reqs :
    pc[r] = "done" /\ inFallback[r] /\ payload[r].format = "mp3"
    /\ Complete(fs[Canon(r)], "mp3")

\* C6: a request invokes the fallback engine at most once and engines at
\* most twice, and when the fallback synthesize fails the request ends in
\* a terminal failure without another engine invocation.
C6_FallbackAtMostOnce ==
  [][\A r \in Reqs :
       /\ synthCalls'[r]["edge"] <= 1
       /\ synthCalls'[r]["pyttsx3"] <= 1
       /\ (payload'[r].engine = "pyttsx3") => synthCalls'[r]["edge"] = 0
       /\ (inFallback[r] /\ pc[r] = "th_raised" /\ pc'[r] # pc[r])
            => (pc'[r] = "failed" /\ synthCalls'[r] = synthCalls[r])
       /\ pc[r] = "failed" => (pc'[r] = "failed" /\ synthCalls'[r] = synthCalls[r])]_vars

C6_Witness ==
  \E r \in Reqs : pc[r] = "failed" /\ inFallback[r] /\ Calls(r) = 2
                  /\ error[r] = "Internal Server Error"

\* C7: only a transient connectivity failure of the primary engine starts
\* the fallback; after any other primary failure the fallback engine is
\* never invoked and the request fails with "Synthesis failed.".
C7_OnlyTransientFallsBack ==
  \A r \in Reqs :
    /\ primFail[r] = "other"
         => /\ ~inFallback[r]
            /\ Calls(r) = 1
            /\ synthCalls[r][payload[r].engine] = 1
            /\ pc[r] = "failed" /\ error[r] = "Synthesis failed."
    /\ inFallback[r] => (primFail[r] = "transient" /\ payload[r].engine = "edge")

C7_Witness ==
  /\ \E r \in Reqs : primFail[r] = "other" /\ payload[r].engine = "edge"
                     /\ nchunk[r] > 0
  /\ \E r \in Reqs : primFail[r] = "other" /\ payload[r].engine = "pyttsx3"
                     /\ p3_available = "false"

\* C8: when the primary engine failed transiently and the fallback
\* synthesize fails too, the request ends with the "Synthesis failed."
\* result.
C8_FallbackFailureIsSynthesisFailure ==
  [][\A r \in Reqs :
       (inFallback[r] /\ pc[r] = "th_raised" /\ pc'[r] = "failed")
         => error'[r] = "Synthesis failed."]_vars

\* C9: a request that follows only failed synthesis attempts for its
\* fingerprint (every earlier request for it had ended in an engine failure
\* when it arrived) is never answered cached=true.
C9_NoHitOnFailedLeftover ==
  \A r \in Reqs :
    (pc[r] = "done" /\ resp[r].cached)
      => \E q \in Earlier(r) :
           ~(q \in before[r] /\ pc[q] = "failed" /\ error[q] \in EngineFailure)

SynthReturns(r) ==
  \/ pc[r] = "edge_stream" /\ pc'[r] # "edge_stream" /\ primFail'[r] = primFail[r]
  \/ pc[r] = "th_done" /\ pc'[r] # "th_done"
FfmpegMissing == "ffmpeg is required to convert to requested format."

\* C11: when a request needs a conversion and ffmpeg is not available, the
\* request ends, as soon as its synthesis returned, in a terminal error whose
\* detail is its own and not "Synthesis failed.", on the primary path of
\* both engines and on the fallback path; no file is touched.
C11_ConversionUnavailableIsDistinct ==
  [][\A r \in Reqs :
       (SynthReturns(r) /\ payload[r].format # UsedNative(r) /\ ~ffmpeg)
         => /\ pc'[r] = "failed"
            /\ error'[r] = FfmpegMissing
            /\ error'[r] \notin EngineFailure
            /\ fs' = fs]_vars

C11_Witness ==
  /\ \E r \in Reqs : pc[r] = "failed" /\ error[r] = FfmpegMissing /\ inFallback[r]
  /\ \E r \in Reqs : pc[r] = "failed" /\ error[r] = FfmpegMissing /\ ~inFallback[r]

\* C12: when convert_audio(src, dst) returns False no partial file is left
\* at dst: the canonical path is absent or holds a complete artifact.
C12_FailedConversionLeavesNoPartialDst ==
  [][\A r \in Reqs :
       (pc[r] = "convert" /\ pc'[r] = "failed")
         => (~Exists(fs', Canon(r)) \/ Complete(fs'[Canon(r)], payload[r].format))]_vars

\* C14: a request whose text is empty, blank or too long is rejected with
\* the validation error in its first step: no engine is invoked, no
\* response is built from the store and the artifact store is unchanged.
C14_InvalidTextRejectedFirst ==
  [][\A r \in Reqs :
       (pc[r] = "idle" /\ pc'[r] # "idle" /\ payload'[r].text = BadText)
         => /\ pc'[r] = "failed"
            /\ error'[r] = "Text must not be empty."
            /\ resp'[r] = NoResp
            /\ synthCalls'[r] = [e \in Engines |-> 0]
            /\ fs' = fs
            /\ loopBusy' = loopBusy]_vars

C14_Witness ==
  \E q, r \in Reqs :
    /\ pc[r] = "failed" /\ payload[r].text = BadText
    /\ pc[q] = "done" /\ payload[q].engine = payload[r].engine
    /\ payload[q].format = payload[r].format

\* C18: once pyttsx3.init() has failed the engine stays unavailable:
\* _available remains False and pyttsx3.init() is never called again.
C18_FailedInitIsPermanent ==
  [][p3_available = "false"
       => (p3_available' = "false" /\ initCalls' = initCalls)]_vars

\* C19: pyttsx3.init() runs at most once per engine instance, also when
\* several executor threads use the engine for the first time, and the
\* engine is always Uninitialized, Ready or PermanentlyUnavailable.
C19_InitOnceThreeStates ==
  /\ initCalls <= 1
  /\ \/ ~p3_engine /\ p3_available = "none"
     \/ p3_engine /\ p3_available = "true"
     \/ ~p3_engine /\ p3_available = "false"

\* C20: when concurrent identical requests that all missed the cache have
\* all ended in Done, the canonical file is the complete output of exactly
\* one synthesis.
C20_OneWholeOutputAfterRace ==
  (/\ \A r \in Reqs : Succeeded(r) /\ Valid(r)
   /\ \A q, r \in Reqs : payload[q] = payload[r])
    => \A r \in Reqs : Complete(fs[Canon(r)], payload[r].format)

\* --------------------------------------------- admission control: claims
Stamps(c) == {admitted[c][k] : k \in 1..Len(admitted[c])}
AdmittedIn(c, lo, hi) ==
  Cardinality({k \in 1..Len(admitted[c]) : lo <= admitted[c][k] /\ admitted[c][k] <= hi})

\* C13: for every client at most MAX_REQ_PER_MIN requests are admitted
\* within any window of WINDOW_SEC seconds (a request arriving on a full
\* window, up to its last second, is rejected), and a request is rejected
\* only when MAX_REQ_PER_MIN requests were admitted in the window before it.
C13_AtMostMaxPerWindow ==
  /\ \A c \in Clients : \A t \in Stamps(c) :
       AdmittedIn(c, t, t + WINDOW_SEC) <= MAX_REQ_PER_MIN
  /\ \A c \in Clients :
       (verdict.client = c /\ ~verdict.ok)
         => AdmittedIn(c, verdict.at - WINDOW_SEC, verdict.at) = MAX_REQ_PER_MIN

C13_Witness ==
  \E c \in Clients :
    /\ verdict = [client |-> c, ok |-> FALSE, at |-> WINDOW_SEC]
    /\ AdmittedIn(c, 0, 0) = MAX_REQ_PER_MIN


\* ------------------------------------------------ fingerprint properties
\* the number a rate or pitch is limited to
Clamped(v, lo, hi) == IF v < lo THEN lo ELSE IF v > hi THEN hi ELSE v

\* the seven effective fields of a request
Effective(q) ==
  <<q.engine, VoiceOrEmpty(q.voice),
    IF q.ssml \/ ~q.normalize THEN q.text ELSE normalize_text(q.text),
    q.ssml, Clamped(q.rate, RATE_MIN, RATE_MAX),
    Clamped(q.pitch, PITCH_MIN, PITCH_MAX), q.format>>

DiffersOnlyIn(F) == \A f \in Fields \ F : fpA[f] = fpB[f]

\* C15: two requests that differ only in rate or pitch values that clamp
\* to the same number get the identical fingerprint and artifact path,
\* and the second is a cache hit of the first.
C15_ClampedBeforeFingerprint ==
  ( /\ fpStage = "second"
    /\ DiffersOnlyIn({"rate", "pitch"})
    /\ Clamped(fpA.rate, RATE_MIN, RATE_MAX) = Clamped(fpB.rate, RATE_MIN, RATE_MAX)
    /\ Clamped(fpA.pitch, PITCH_MIN, PITCH_MAX)
         = Clamped(fpB.pitch, PITCH_MIN, PITCH_MAX) )
  => /\ ckA.key_hex = ckB.key_hex
     /\ ckA.rel_path = ckB.rel_path
     /\ fpHit

\* rate = RATE_MAX + 100 served first, rate = RATE_MAX second: a cache hit
C15_Witness ==
  /\ fpStage = "second"
  /\ fpA.rate = RATE_MAX + 100
  /\ fpB.rate = RATE_MAX
  /\ fpHit

\* C16: two requests get the same fingerprint exactly when their seven
\* effective fields (engine, voice, effective text, ssml, clamped rate,
\* clamped pitch, format) are equal: equal effective fields give the same
\* canonical payload and digest, and a difference in any one field gives
\* a different canonical payload and a different digest.
C16_FingerprintOfSevenEffectiveFields ==
  fpStage = "second"
  => /\ (Effective(fpA) = Effective(fpB)) <=> (ckA.raw = ckB.raw)
     /\ (ckA.raw = ckB.raw) <=> (ckA.key_hex = ckB.key_hex)

\* under ssml = true, a text that normalization would change, the
\* normalize flag flipped: the same fingerprint
C16_Witness ==
  /\ fpStage = "second"
  /\ fpA.ssml /\ fpB.ssml
  /\ fpA.normalize # fpB.normalize
  /\ normalize_text(fpA.text) # fpA.text
  /\ ckA.key_hex = ckB.key_hex

\* ---------------------------------------------- driver-property properties
\* C17: for the Local engine, the rate and the voice in effect for a
\* synthesis are a function of that request's rate and voice alone: the
\* rate is the driver default plus the request's rate, and an empty voice
\* speaks with the driver default voice, whatever was served earlier.
C17_SynthesisDeterminedByRequest ==
  nSynth > 0
  => /\ lastSynth.usedRate = lastSynth.rate
     /\ lastSynth.usedVoice =
          (IF lastSynth.voice = "" THEN DefaultVoice ELSE lastSynth.voice)


\* ------------------------------------------------------ download properties
\* an identifier of the exact form <64 hex chars>.<mp3|ogg|wav>
ExactForm(id) ==
  /\ Len(id) = HEX_LEN + 4
  /\ \A k \in 1..HEX_LEN : id[k] \in HexDigits
  /\ id[HEX_LEN + 1] = "."
  /\ SubSeq(id, HEX_LEN + 2, Len(id)) \in DownloadExts

\* C21: an identifier of the exact form <64 hex chars>.<mp3|ogg|wav> is
\* mapped to the path compute_cache_key yields for that fingerprint and
\* format; every other identifier is answered 400 and no path reaches the
\* filesystem.
C21_DownloadExactFormOnly ==
  dlStage = "done"
  => IF ExactForm(dlId)
     THEN /\ dlStatus # 400
          /\ dlPath = RelPath(Lower(SubSeq(dlId, 1, HEX_LEN)),
                              SubSeq(dlId, HEX_LEN + 2, Len(dlId)))
     ELSE /\ dlStatus = 400
          /\ dlProbed = {}


\* ------------------------------------------------- responsiveness properties
\* an engine call or a format conversion of r is under way
InProgress(r) ==
  pc[r] \in {"edge_stream", "th_queued", "th_init", "th_run", "th_write",
             "convert"}

\* q is the request the server would accept next
NextToArrive(q) ==
  pc[q] = "idle" /\ (IF q = 1 THEN TRUE ELSE pc[q - 1] # "idle")

\* the handler of q can start now, for a request with another fingerprint
CanAccept(q, r) ==
  ENABLED (\E p \in Payload :
             /\ compute_cache_key(p) # compute_cache_key(payload[r])
             /\ Arrive(q, p))

\* C22: while the synthesis or the format conversion of one request is in
\* progress, an unrelated request (another fingerprint) can be accepted.
C22_SlowWorkNeverStallsOthers ==
  \A r, q \in Reqs : (InProgress(r) /\ NextToArrive(q)) => CanAccept(q, r)


\* ------------------------------------------------- reported-engine property
\* C23: the engine in a response differs from the requested engine only
\* when this same request took the fallback; a cache hit reports the
\* requested engine, also when the stored artifact was produced by the
\* fallback engine for an earlier request.
C23_EngineDiffersOnlyByOwnFallback ==
  \A r \in Reqs :
    pc[r] = "done"
      => /\ resp[r].engine # payload[r].engine
              => (inFallback[r] /\ ~resp[r].cached)
         /\ resp[r].cached => resp[r].engine = payload[r].engine

\* the first response for a fingerprint says pyttsx3, the cached one edge
C23_Witness ==
  \E q, r \in Reqs :
    /\ SameRequest(q, r) /\ q \in before[r]
    /\ pc[q] = "done" /\ inFallback[q] /\ resp[q].engine = "pyttsx3"
    /\ pc[r] = "done" /\ resp[r].cached /\ resp[r].engine = "edge"
    /\ fs[Canon(r)].chunks # <<>> /\ fs[Canon(r)].chunks[1].eng = "pyttsx3"


\* ------------------------------------------- shared-intermediate property
\* no engine call and no converter call has failed so far
NothingFailed ==
  \A q \in Reqs : /\ pc[q] \notin {"failed", "th_raised"}
                  /\ primFail[q] = "none" /\ ~inFallback[q]

\* every request that has arrived is the same valid request, one whose
\* format its engine does not produce natively
IdenticalConverting ==
  \A q, r \in Reqs :
    (pc[q] # "idle" /\ pc[r] # "idle")
      => /\ payload[q] = payload[r]
         /\ Valid(r)
         /\ payload[r].format # UsedNative(r)

\* C24: among concurrent identical requests that need a format conversion,
\* with the converter installed and no engine or converter failure, a
\* request whose synthesis ends goes on to its conversion: it is not
\* answered "Audio conversion failed." for want of the intermediate
\* native-format file they share.
C24_SharedIntermediateSurvives ==
  [][\A r \in Reqs :
       ( /\ NothingFailed /\ IdenticalConverting /\ has_ffmpeg
         /\ pc[r] \in {"edge_stream", "th_done"} )
         => error'[r] # "Audio conversion failed."]_<<vars, sideVars>>


\* ------------------------------------------ admission control: frame claim
NonDecreasing(b) == \A i, j \in 1..Len(b) : i <= j => b[i] <= b[j]
IsSuffix(a, b) == \E k \in 0..Len(b) : a = SubSeq(b, k + 1, Len(b))

\* C25: a call of _rate_limit_ok(ip) changes only the record of ip; a
\* rejected call appends nothing, it only drops leading timestamps; every
\* record holds at most MAX_REQ_PER_MIN timestamps in non-decreasing order;
\* and a call made when the oldest recorded timestamp of the client is more
\* than WINDOW_SEC old is admitted.
C25_CallTouchesOwnRecordOnly ==
  [][\A c \in Ips :
       /\ RATE_BUCKET'[c] # RATE_BUCKET[c]
            => /\ verdict'.client = c /\ verdict'.at = now
               /\ \A d \in Ips \ {c} : RATE_BUCKET'[d] = RATE_BUCKET[d]
       /\ (RATE_BUCKET'[c] # RATE_BUCKET[c] /\ ~verdict'.ok)
            => IsSuffix(RATE_BUCKET'[c], RATE_BUCKET[c])
       /\ Len(RATE_BUCKET'[c]) <= MAX_REQ_PER_MIN
       /\ NonDecreasing(RATE_BUCKET'[c])
       /\ ( /\ verdict' # verdict /\ verdict'.client = c
            /\ RATE_BUCKET[c] # <<>>
            /\ now - Head(RATE_BUCKET[c]) > WINDOW_SEC )
            => verdict'.ok
    ]_<<vars, sideVars>>

\* a client that filled its window at time 0 is admitted again just after
\* the window, while the record of another client is in place
C25_Witness ==
  \E c \in Clients :
    /\ Len(admitted[c]) = MAX_REQ_PER_MIN + 1
    /\ admitted[c][MAX_REQ_PER_MIN] = 0
    /\ verdict = [client |-> c, ok |-> TRUE, at |-> WINDOW_SEC + 1]
    /\ RATE_BUCKET[c] = <<WINDOW_SEC + 1>>
    /\ RATE_BUCKET[Bystander] = <<0>>

====
